---- MODULE Spec2Model ----
(***************************************************************************)
(* The Kevin Bacon problem (src/app.py): class MovieGraph builds a graph   *)
(* of movies and cast members from a data file; path_to_actor and          *)
(* average_number query it; a Streamlit script calls both from two button  *)
(* handlers.                                                               *)
(***************************************************************************)
EXTENDS Integers, Sequences, FiniteSets, TLC

VARIABLES movie_titles, actor_names, G, credits, nlines, pc, ret

vars == <<movie_titles, actor_names, G, credits, nlines, pc, ret>>

----------------------------------------------------------------------------
(* Bounds of the model and the strings a data file may hold.               *)

\* lines of the data file read by Spec
MaxLines == 2
\* cast members on one line
MaxCast == 2
\* lines of the data file read by SpecWide
WideLines == 3
\* lines of the data file read by SpecChain
MaxChain == 8

\* first fields of a line; "Alice" and "Bob" also occur as cast members
TitleNames == {"Movie A", "Movie B", "Alice", "Bob"}
CastNames == {"Alice", "Bob", "Carol"}
Names == TitleNames \cup CastNames

\* what the text inputs of the page may hold
Inputs == Names \cup {""}

Range(s) == {s[i] : i \in DOMAIN s}

SeqsUpTo(S, n) == UNION {[1..k -> S] : k \in 0..n}

\* the lists line.strip().split('/') can give: a title, then the cast
Lines(maxCast) == {<<t>> \o c : t \in TitleNames, c \in SeqsUpTo(CastNames, maxCast)}

----------------------------------------------------------------------------
(* networkx.Graph: the nodes and the undirected edges (a self-loop is the  *)
(* one-element set).                                                       *)

EmptyGraph == [nodes |-> {}, edges |-> {}]

add_edge(g, u, v) == [nodes |-> g.nodes \cup {u, v}, edges |-> g.edges \cup {{u, v}}]

Neighbors(g, v) == {w \in g.nodes : {v, w} \in g.edges}

\* breadth-first levels from the set `seen`, whose last level is `frontier`:
\* the sequence of the levels that follow
RECURSIVE Levels(_, _, _)
Levels(g, seen, frontier) ==
    LET next == (UNION {Neighbors(g, v) : v \in frontier}) \ seen
    IN  IF next = {} THEN <<>>
        ELSE <<next>> \o Levels(g, seen \cup next, next)

\* the breadth-first levels from v: level i + 1 holds the nodes i hops away
LevelsFrom(g, v) == <<{v}>> \o Levels(g, {v}, {v})

\* single-source shortest path lengths: node -> hops, for the nodes reached
single_source_shortest_path_length(g, v) ==
    LET lv == LevelsFrom(g, v)
    IN  [n \in UNION Range(lv) |-> (CHOOSE i \in DOMAIN lv : n \in lv[i]) - 1]

\* every shortest path from s to t (both nodes of g), as node sequences
RECURSIVE PathsBack(_, _, _, _)
PathsBack(g, dist, s, t) ==
    IF t = s THEN {<<s>>}
    ELSE UNION {{p \o <<t>> : p \in PathsBack(g, dist, s, u)} :
                u \in {w \in Neighbors(g, t) : w \in DOMAIN dist /\ dist[w] = dist[t] - 1}}

ShortestPaths(g, s, t) ==
    LET dist == single_source_shortest_path_length(g, s)
    IN  IF t \in DOMAIN dist THEN PathsBack(g, dist, s, t) ELSE {}

\* nx.shortest_path(G, source, target): the outcomes it can have. Which of
\* several shortest paths it returns is left open by the library.
nx_shortest_path(g, source, target) ==
    IF source \notin g.nodes \/ target \notin g.nodes
    THEN {[err |-> "NodeNotFound", path |-> <<>>]}
    ELSE IF ShortestPaths(g, source, target) = {}
    THEN {[err |-> "NetworkXNoPath", path |-> <<>>]}
    ELSE {[err |-> "none", path |-> p] : p \in ShortestPaths(g, source, target)}

\* nx.shortest_path_length(G, target=target)
nx_shortest_path_length(g, target) ==
    IF target \notin g.nodes
    THEN [err |-> "NodeNotFound", lengths |-> <<>>]
    ELSE [err |-> "none", lengths |-> single_source_shortest_path_length(g, target)]

----------------------------------------------------------------------------
(* MovieGraph.__init__                                                     *)

\* what the last call or button event gave: nothing yet
NoRet == [op |-> "none", src |-> "", tgt |-> "", err |-> "none", path |-> <<>>,
          degree |-> 0, hist |-> <<>>, total |-> 0, count |-> 0,
          written |-> "", exc |-> "none"]

Init ==
    /\ movie_titles = {}
    /\ actor_names = {}
    /\ G = EmptyGraph
    /\ credits = {}
    /\ nlines = 0
    /\ pc = "loading"
    /\ ret = NoRet

\* the inner loop gone wrong: each cast member joined to the element before
\* it on the line (the title, then the cast member just added)
RECURSIVE AddCast_chain(_, _, _)
AddCast_chain(g, title, movie_list) ==
    IF movie_list = <<>> THEN g
    ELSE AddCast_chain(add_edge(g, title, Head(movie_list)), Head(movie_list),
                       Tail(movie_list))

\* the inner loop: for i in movie_list: G.add_edge(title, i)
RECURSIVE AddCast(_, _, _)
AddCast(g, title, movie_list) ==
    IF movie_list = <<>> THEN g
    ELSE AddCast(add_edge(g, title, Head(movie_list)), title, Tail(movie_list))

\* one turn of the loop gone wrong: the title is made a node of the graph
\* even when the line has no cast
ReadLine_add_node(fields) ==
    LET title == Head(fields)
        movie_list == Tail(fields)
        withTitle == [nodes |-> G.nodes \cup {title}, edges |-> G.edges]
    IN  /\ pc = "loading"
        /\ movie_titles' = movie_titles \cup {title}
        /\ actor_names' = actor_names \cup Range(movie_list)
        /\ G' = AddCast(withTitle, title, movie_list)
        /\ credits' = credits \cup {<<title, i>> : i \in Range(movie_list)}
        /\ nlines' = nlines + 1
        /\ UNCHANGED <<pc, ret>>

\* one turn of the loop over the lines: `fields` is line.strip().split('/')
ReadLine(fields) ==
    LET title == Head(fields)
        movie_list == Tail(fields)
    IN  /\ pc = "loading"
        /\ movie_titles' = movie_titles \cup {title}
        /\ actor_names' = actor_names \cup Range(movie_list)
        /\ G' = AddCast(G, title, movie_list)
        /\ credits' = credits \cup {<<title, i>> : i \in Range(movie_list)}
        /\ nlines' = nlines + 1
        /\ UNCHANGED <<pc, ret>>

\* the loop ends: the object is built
EndOfFile ==
    /\ pc = "loading"
    /\ pc' = "ready"
    /\ UNCHANGED <<movie_titles, actor_names, G, credits, nlines, ret>>

----------------------------------------------------------------------------
(* MovieGraph.path_to_actor                                                *)

\* actor_path: the elements of the path that are not in movie_titles
RECURSIVE actor_path(_, _)
actor_path(titles, shortest_path) ==
    IF shortest_path = <<>> THEN <<>>
    ELSE (IF Head(shortest_path) \notin titles THEN <<Head(shortest_path)>> ELSE <<>>)
         \o actor_path(titles, Tail(shortest_path))

\* path_to_actor gone wrong: the filtered actor_path is returned as the path
path_to_actor_filtered(g, titles, source, target) ==
    {IF r.err # "none"
     THEN [err |-> r.err, path |-> <<>>, degree |-> 0]
     ELSE [err |-> "none", path |-> actor_path(titles, r.path),
           degree |-> Len(actor_path(titles, r.path)) - 1] :
     r \in nx_shortest_path(g, source, target)}

\* path_to_actor gone wrong: the no-path exception is swallowed and an empty
\* path returned
path_to_actor_no_raise(g, titles, source, target) ==
    {IF r.err = "NetworkXNoPath"
     THEN [err |-> "none", path |-> <<>>, degree |-> -1]
     ELSE IF r.err # "none"
     THEN [err |-> r.err, path |-> <<>>, degree |-> 0]
     ELSE [err |-> "none", path |-> r.path,
           degree |-> Len(actor_path(titles, r.path)) - 1] :
     r \in nx_shortest_path(g, source, target)}

\* the outcomes of path_to_actor(source, target): the exception of
\* nx.shortest_path propagates; otherwise (shortest_path, len(actor_path) - 1)
path_to_actor(g, titles, source, target) ==
    {IF r.err # "none"
     THEN [err |-> r.err, path |-> <<>>, degree |-> 0]
     ELSE [err |-> "none", path |-> r.path,
           degree |-> Len(actor_path(titles, r.path)) - 1] :
     r \in nx_shortest_path(g, source, target)}

PathToActor(source, target) ==
    /\ pc = "ready"
    /\ \E r \in path_to_actor(G, movie_titles, source, target) :
         ret' = [NoRet EXCEPT !.op = "path_to_actor", !.src = source, !.tgt = target,
                              !.err = r.err, !.path = r.path, !.degree = r.degree]
    /\ UNCHANGED <<movie_titles, actor_names, G, credits, nlines, pc>>

----------------------------------------------------------------------------
(* MovieGraph.average_number                                               *)

\* bins=[i-.5 for i in range(8)]: the number of bin edges
HistRange == 8

RECURSIVE SumOf(_, _)
SumOf(f, S) ==
    IF S = {} THEN 0
    ELSE LET x == CHOOSE y \in S : TRUE
         IN  f[x] + SumOf(f, S \ {x})

\* values: for every key of all_paths with an even length, the length // 2
values(all_paths) ==
    [n \in {k \in DOMAIN all_paths : all_paths[k] % 2 = 0} |-> all_paths[n] \div 2]

\* ax.hist(values, bins): bin k holds the values v with k - .5 <= v < k + .5
\* (the last bin also its right edge); a value outside every bin is dropped
ax_hist(vals) ==
    [k \in 0..(HistRange - 2) |-> Cardinality({n \in DOMAIN vals : vals[n] = k})]

\* the outcome of average_number(target): the histogram's counts, and
\* sum(values) and len(values), whose quotient is returned
average_number(g, target) ==
    LET r == nx_shortest_path_length(g, target)
        vals == values(r.lengths)
    IN  IF r.err # "none"
        THEN [err |-> r.err, hist |-> <<>>, total |-> 0, count |-> 0]
        ELSE IF Cardinality(DOMAIN vals) = 0
        THEN [err |-> "ZeroDivisionError", hist |-> <<>>, total |-> 0, count |-> 0]
        ELSE [err |-> "none", hist |-> ax_hist(vals),
              total |-> SumOf(vals, DOMAIN vals), count |-> Cardinality(DOMAIN vals)]

AverageNumber(target) ==
    /\ pc = "ready"
    /\ LET r == average_number(G, target)
       IN  ret' = [NoRet EXCEPT !.op = "average_number", !.tgt = target, !.err = r.err,
                                !.hist = r.hist, !.total = r.total, !.count = r.count]
    /\ UNCHANGED <<movie_titles, actor_names, G, credits, nlines, pc>>

----------------------------------------------------------------------------
(* The Streamlit script: every button event runs the script, which builds  *)
(* obj and then the handler of the button pressed. An exception a handler  *)
(* does not catch leaves the script run (ret.exc).                         *)

\* what the handlers do after the actors are chosen: the path query, its
\* output, then the two histograms
ShowResult(op, actor1, actor2) ==
    \E r \in path_to_actor(G, movie_titles, actor1, actor2) :
        LET a1 == average_number(G, actor1)
            a2 == average_number(G, actor2)
            base == [NoRet EXCEPT !.op = op, !.src = actor1, !.tgt = actor2]
        IN  ret' = IF r.err # "none"
                   THEN [base EXCEPT !.exc = r.err]
                   ELSE IF a1.err # "none"
                   THEN [base EXCEPT !.path = r.path, !.degree = r.degree,
                                     !.written = "Score", !.exc = a1.err]
                   ELSE IF a2.err # "none"
                   THEN [base EXCEPT !.path = r.path, !.degree = r.degree,
                                     !.written = "Average score", !.exc = a2.err]
                   ELSE [base EXCEPT !.path = r.path, !.degree = r.degree,
                                     !.written = "Average score",
                                     !.total = a2.total, !.count = a2.count]

\* if button1: the 'Run' button, with the two text inputs
Run(actor1, actor2) ==
    /\ pc = "ready"
    /\ IF actor1 = "" \/ actor2 = ""
       THEN ret' = [NoRet EXCEPT !.op = "Run", !.src = actor1, !.tgt = actor2,
                                 !.written = "Select two actors."]
       ELSE ShowResult("Run", actor1, actor2)
    /\ UNCHANGED <<movie_titles, actor_names, G, credits, nlines, pc>>

\* if button2: the 'Choose random actors' button; np.random.choice of an
\* empty list raises ValueError
Random ==
    /\ pc = "ready"
    /\ IF actor_names = {}
       THEN ret' = [NoRet EXCEPT !.op = "Random", !.exc = "ValueError"]
       ELSE \E actor1 \in actor_names, actor2 \in actor_names :
                ShowResult("Random", actor1, actor2)
    /\ UNCHANGED <<movie_titles, actor_names, G, credits, nlines, pc>>

----------------------------------------------------------------------------
(* The specifications.                                                     *)

\* the class: the file is read, then the two queries are called
Next ==
    \/ \E f \in Lines(MaxCast) : nlines < MaxLines /\ ReadLine(f)
    \/ EndOfFile
    \/ \E s \in Names, t \in Names : PathToActor(s, t)
    \/ \E t \in Names : AverageNumber(t)

Spec == Init /\ [][Next]_vars

\* the class on a longer file
NextWide ==
    \/ \E f \in Lines(MaxCast) : nlines < WideLines /\ ReadLine(f)
    \/ EndOfFile
    \/ \E s \in Names, t \in Names : PathToActor(s, t)

SpecWide == Init /\ [][NextWide]_vars

\* the page: the file is read, then the buttons are pressed
NextPage ==
    \/ \E f \in Lines(MaxCast) : nlines < MaxLines /\ ReadLine(f)
    \/ EndOfFile
    \/ \E a1 \in Inputs, a2 \in Inputs : Run(a1, a2)
    \/ Random

SpecPage == Init /\ [][NextPage]_vars

\* the class on files without a string that is both a title and a cast
\* member: line k is a movie of two actors, a new one and either the one
\* before (a chain) or the first
ChainActor(k) == "Actor " \o ToString(k)
ChainMovie(k) == "Movie " \o ToString(k)
ChainLines(k) == {<<ChainMovie(k), ChainActor(j), ChainActor(k)>> : j \in {0, k - 1}}

NextChain ==
    \/ \E f \in ChainLines(nlines + 1) : nlines < MaxChain /\ ReadLine(f)
    \/ EndOfFile
    \/ \E k \in 0..MaxChain : AverageNumber(ChainActor(k))

SpecChain == Init /\ [][NextChain]_vars

----------------------------------------------------------------------------
(* The vocabulary of the properties, defined apart from the searches the   *)
(* queries use.                                                            *)

\* the nodes joined to the nodes of S by some walk
RECURSIVE Closure(_, _)
Closure(g, S) ==
    LET T == S \cup {w \in g.nodes : \E v \in S : {v, w} \in g.edges}
    IN  IF T = S THEN S ELSE Closure(g, T)

\* the connected component of v
Reach(g, v) == Closure(g, {v})

\* the nodes at most k hops from s
RECURSIVE Ball(_, _, _)
Ball(g, s, k) ==
    IF k = 0 THEN {s}
    ELSE LET B == Ball(g, s, k - 1)
         IN  B \cup {w \in g.nodes : \E v \in B : {v, w} \in g.edges}

\* the least number of hops from s to t, for t in the component of s
MinHops(g, s, t) ==
    CHOOSE k \in 0..Cardinality(g.nodes) :
        /\ t \in Ball(g, s, k)
        /\ k > 0 => t \notin Ball(g, s, k - 1)

\* the simple paths of g that begin with the path p
RECURSIVE Extensions(_, _)
Extensions(g, p) ==
    {p} \cup UNION {Extensions(g, Append(p, w)) :
                    w \in {x \in g.nodes : {p[Len(p)], x} \in g.edges /\ x \notin Range(p)}}

SimplePaths(g) == UNION {Extensions(g, <<v>>) : v \in g.nodes}

\* consecutive nodes of p are joined by an edge of g
IsWalk(g, p) == \A i \in 1..(Len(p) - 1) : {p[i], p[i + 1]} \in g.edges

\* no string is both a title and a cast member
Disjoint == movie_titles \cap actor_names = {}

\* the last call was path_to_actor and it returned a result
Returned == ret.op = "path_to_actor" /\ ret.err = "none"

\* the file holds the records "Movie A/Alice/Bob" and "Movie B/Bob/Carol"
\* and no other
Scenario ==
    /\ movie_titles = {"Movie A", "Movie B"}
    /\ credits = {<<"Movie A", "Alice">>, <<"Movie A", "Bob">>,
                  <<"Movie B", "Bob">>, <<"Movie B", "Carol">>}

----------------------------------------------------------------------------
(* The claims.                                                             *)

\* C1: for two actors of one connected component, the degree returned by
\* path_to_actor is half the least number of hops between them, is an
\* integer >= 0, and is 0 when source = target.
C1_DegreeIsHalfHops ==
    (/\ ret.op = "path_to_actor"
     /\ ret.src \in actor_names /\ ret.tgt \in actor_names
     /\ ret.tgt \in Reach(G, ret.src))
    => /\ ret.err = "none"
       /\ 2 * ret.degree = MinHops(G, ret.src, ret.tgt)
       /\ ret.degree >= 0
       /\ ret.src = ret.tgt => ret.degree = 0

\* C2 as stated: between connected actors of a file without a string that
\* is both title and cast member, the returned path holds no node of the
\* movie set and has degree + 1 elements.
C2_PathHoldsOnlyActors ==
    (Returned /\ Disjoint /\ ret.src \in actor_names /\ ret.tgt \in actor_names)
    => /\ \A i \in DOMAIN ret.path : ret.path[i] \notin movie_titles
       /\ Len(ret.path) = ret.degree + 1

\* C2 as amended: the returned path is the whole shortest path from source
\* to target, movie nodes included; the degree is the number of its nodes
\* outside the movie set, minus 1, so that the path has 2 * degree + 1
\* elements when no string is both title and cast member; the two records
\* of the scenario give Alice, Movie A, Bob, Movie B, Carol and 2.
C2_PathIsWholeShortestPath ==
    Returned
    => /\ ret.path # <<>>
       /\ ret.path[1] = ret.src /\ ret.path[Len(ret.path)] = ret.tgt
       /\ IsWalk(G, ret.path)
       /\ Len(ret.path) - 1 = MinHops(G, ret.src, ret.tgt)
       /\ ret.degree + 1 = Cardinality({i \in DOMAIN ret.path : ret.path[i] \notin movie_titles})
       /\ (Disjoint /\ ret.src \in actor_names /\ ret.tgt \in actor_names)
            => Len(ret.path) = 2 * ret.degree + 1
       /\ (Scenario /\ ret.src = "Alice" /\ ret.tgt = "Carol")
            => /\ ret.path = <<"Alice", "Movie A", "Bob", "Movie B", "Carol">>
               /\ ret.degree = 2

\* C2's case: the scenario's file, queried from Alice to Carol
C2_Witness ==
    /\ Returned
    /\ Scenario
    /\ ret.src = "Alice" /\ ret.tgt = "Carol"
    /\ ret.degree = 2

\* C3: the counts of the histogram of average_number(target) add up to the
\* number of actor nodes in the component of target, whatever the degrees.
C3_HistogramCountsEveryActor ==
    (ret.op = "average_number" /\ ret.err = "none" /\ ret.tgt \in actor_names)
    => SumOf(ret.hist, DOMAIN ret.hist)
         = Cardinality(actor_names \cap Reach(G, ret.tgt))

\* C4: the degree path_to_actor(a, b) returned is the degree
\* path_to_actor(b, a) returns, for connected actors a and b.
C4_Symmetry ==
    (Returned /\ ret.src \in actor_names /\ ret.tgt \in actor_names)
    => \A r \in path_to_actor(G, movie_titles, ret.tgt, ret.src) :
           r.err = "none" /\ r.degree = ret.degree

\* C5: degree(a, c) <= degree(a, b) + degree(b, c) for actors a, b, c of one
\* connected component, the degrees being those path_to_actor returns.
C5_Triangle ==
    (Returned /\ ret.src \in actor_names /\ ret.tgt \in actor_names)
    => \A b \in actor_names \cap Reach(G, ret.src) :
         \A r1 \in path_to_actor(G, movie_titles, ret.src, b) :
           \A r2 \in path_to_actor(G, movie_titles, b, ret.tgt) :
             ret.degree <= r1.degree + r2.degree

\* a title whose records have no cast member, and that is no cast member
BareTitle(n) ==
    /\ n \in movie_titles \ actor_names
    /\ \A c \in credits : c[1] # n

\* C6: path_to_actor fails with the node-not-found error and returns no
\* result when source or target is no node of the graph: a name that is
\* nowhere in the file, or a title whose record has no cast member.
C6_NodeNotFound ==
    (/\ ret.op = "path_to_actor"
     /\ \E n \in {ret.src, ret.tgt} :
            \/ n \notin G.nodes
            \/ n \notin movie_titles \cup actor_names
            \/ BareTitle(n))
    => /\ ret.err = "NodeNotFound"
       /\ ret.path = <<>>

\* C6's case: the source is a title without cast, the target is a node
C6_Witness ==
    /\ ret.op = "path_to_actor"
    /\ BareTitle(ret.src)
    /\ ret.tgt \in G.nodes
    /\ ret.err = "NodeNotFound"

\* C7: path_to_actor fails with the no-path error and returns no result
\* when source and target are nodes of different connected components.
C7_NoPath ==
    (/\ ret.op = "path_to_actor"
     /\ ret.src \in G.nodes /\ ret.tgt \in G.nodes
     /\ ret.tgt \notin Reach(G, ret.src))
    => /\ ret.err = "NetworkXNoPath"
       /\ ret.path = <<>>

\* C7's case: two movies with disjoint casts, an actor of each
C7_Witness ==
    /\ ret.op = "path_to_actor"
    /\ Disjoint
    /\ ret.src \in actor_names /\ ret.tgt \in actor_names
    /\ Cardinality(movie_titles) = 2
    /\ ret.err = "NetworkXNoPath"

\* C8: a node-not-found or no-path failure of a query never leaves a button
\* handler: it is caught and shown as a message.
C8_FailureIsCaught ==
    ret.op \in {"Run", "Random"}
    => /\ ret.exc \notin {"NodeNotFound", "NetworkXNoPath"}
       /\ ret.written # ""

\* C9 as stated: in a file without a string that is both title and cast
\* member, the path found between two different actor nodes has an odd
\* number of hops.
C9_OddHops ==
    (Returned /\ Disjoint /\ ret.src \in actor_names /\ ret.tgt \in actor_names
     /\ ret.src # ret.tgt)
    => (Len(ret.path) - 1) % 2 = 1

\* the nodes of p that are both a title and a cast member
Ambiguous(p) == Range(p) \cap movie_titles \cap actor_names

\* C9 as amended: every path between two actor nodes, none of whose nodes
\* is both a title and a cast member, has an even number of hops; so has
\* the path that path_to_actor finds.
C9_EvenHops ==
    /\ \A p \in SimplePaths(G) :
         (p[1] \in actor_names /\ p[Len(p)] \in actor_names /\ Ambiguous(p) = {})
         => (Len(p) - 1) % 2 = 0
    /\ (Returned /\ ret.src \in actor_names /\ ret.tgt \in actor_names
        /\ Ambiguous(ret.path) = {})
       => (Len(ret.path) - 1) % 2 = 0

\* C9's case: a path of four hops found between two actors
C9_Witness ==
    /\ Returned
    /\ ret.src \in actor_names /\ ret.tgt \in actor_names
    /\ Ambiguous(ret.path) = {}
    /\ Len(ret.path) = 5

\* C10: after any records, no string is both in movie_titles and in
\* actor_names, and every edge joins a title to a name that is a cast
\* member of a record of that title; no edge joins two movies, two actors
\* or a node to itself.
C10_Bipartite ==
    /\ Disjoint
    /\ \A e \in G.edges :
         /\ Cardinality(e) = 2
         /\ \E t \in e \cap movie_titles : \E a \in e \cap actor_names :
               e = {t, a} /\ <<t, a>> \in credits
         /\ ~ (e \subseteq movie_titles)
         /\ ~ (e \subseteq actor_names)

====
